---- MODULE Spec2Model ----
(***************************************************************************)
(* Self-play / TD-bootstrap training harness (train.py, value_train.py).   *)
(*                                                                         *)
(* Three state machines share this module:                                 *)
(*   SpecSelfPlay  one call of self_play(player, games, alpha, epsilon)    *)
(*   SpecCompare   one call of compare(player_i, player_j, games)          *)
(*   Spec          the iteration loop of main()                            *)
(*                                                                         *)
(* Real numbers are scaled integers: 1.0 is ONE, alpha is alpha/AlphaDen.  *)
(* Model estimates are multiples of AlphaDen, so the bootstrap blend       *)
(* value + alpha*(v_prime - value) is computed exactly.                    *)
(***************************************************************************)
EXTENDS Integers, Sequences, FiniteSets, TLC

VARIABLES sp, sp_obs, cmp, cmp_obs, main, main_obs, tr, tr_obs, sched

vars == <<sp, sp_obs, cmp, cmp_obs, main, main_obs, tr, tr_obs, sched>>

(***************************************************************************)
(* Bounds                                                                  *)
(***************************************************************************)
MaxGames == 2      \* self_play is called with games in 0..MaxGames
MaxFlips == 1      \* non-terminal plies explored in one call of self_play
MaxCmpGames == 3   \* compare is called with games in 0..MaxCmpGames
NumSym   == 2      \* size m of the symmetry set of the game adapter
AlphaDen == 10     \* alpha is a multiple of 1/AlphaDen
MaxIter  == 2      \* iterations of main() explored (the loop itself is endless)
MaxNew   == 2      \* examples returned by one self-play phase of main(): 1..MaxNew
MaxLimit == 2      \* data_limit is None or in 1..MaxLimit
EvalGames == 2     \* games of the evaluation phase (100 in the sources)
TrainEpochs == 2   \* epochs of one training phase (10 in the sources)

ONE == 2 * AlphaDen

\* blend factors tried: 0, 0.2 (the default), 0.5 and 1
Alphas == {0, AlphaDen \div 5, AlphaDen \div 2, AlphaDen}

\* outputs of the value model / of the player's look-ahead that are tried
Estimates == {0, ONE}

(***************************************************************************)
(* Game adapter (game.py is not part of the sources; modelled from its     *)
(* contract: get_state, get_symmetries, execute_move, is_over, flip).      *)
(* A state is a strip of cells holding 1 (side to move), -1 (opponent) or  *)
(* 0 (empty), always encoded from the mover's perspective.                 *)
(***************************************************************************)
NCells == MaxFlips + 2

Game == [board |-> [i \in 1..NCells |-> 0], flips |-> 0]

Neg(s) == [i \in 1..Len(s) |-> 0 - s[i]]

Rotate(s, k) == [i \in 1..Len(s) |-> s[((i - 1 + k) % Len(s)) + 1]]

\* the m symmetric encodings of the state, in a fixed order
get_symmetries(g) == [k \in 1..NumSym |-> Rotate(g.board, k - 1)]

\* the stub game has one legal move per position: the leftmost empty cell
LegalMoves(g) ==
    LET empty == {i \in 1..NCells : g.board[i] = 0}
    IN  IF empty = {} THEN {} ELSE {CHOOSE i \in empty : \A j \in empty : i <= j}

execute_move(g, a) == [g EXCEPT !.board[a] = 1]

flip(g) == [board |-> Neg(g.board), flips |-> g.flips + 1]

WIN  == ONE
DRAW == ONE \div 2

\* what is_over() may return after a move: 0 (falsy, game goes on) or a
\* terminal value; the game ends at the latest when the strip is full or the
\* explored number of non-terminal plies is used up
IsOverOutcomes(g, budget) ==
    IF LegalMoves(g) = {} \/ budget <= 0 THEN {DRAW, WIN} ELSE {0, DRAW, WIN}

\* is_over() of an adapter whose games never end: always falsy.  Such a game
\* is followed until the strip is full.
EndlessOutcomes == {0}

(***************************************************************************)
(* self_play                                                               *)
(***************************************************************************)
\* variant: the blend taken from the wrong end, v_prime + alpha * (value - v_prime)
TargetFromLookahead(value, v_prime, alpha) ==
    v_prime + (alpha * (value - v_prime)) \div AlphaDen

\* value + alpha * (v_prime - value)
Target(value, v_prime, alpha) == value + (alpha * (v_prime - value)) \div AlphaDen

Example(s, v) == [s |-> s, v |-> v]

\* variant: the opponent-side examples keep the mover's target
PreMoveExamplesSameTarget(g, value) ==
    LET syms == get_symmetries(g)
    IN  [k \in 1..Len(syms) |-> Example(syms[k], value)]
        \o [k \in 1..Len(syms) |-> Example(Neg(syms[k]), value)]

\* variant: the opponent-side target negated along with the state, (-s, -value)
PreMoveExamplesNegated(g, value) ==
    LET syms == get_symmetries(g)
    IN  [k \in 1..Len(syms) |-> Example(syms[k], value)]
        \o [k \in 1..Len(syms) |-> Example(Neg(syms[k]), 0 - value)]

\* data += [(s, value) for s in symmetries]; data += [(-s, 1-value) for s in ...]
PreMoveExamples(g, value) ==
    LET syms == get_symmetries(g)
    IN  [k \in 1..Len(syms) |-> Example(syms[k], value)]
        \o [k \in 1..Len(syms) |-> Example(Neg(syms[k]), ONE - value)]

\* variant: the terminal complement derived from the outcome, (-s, 1-end_value)
TerminalExamplesOutcome(g, end_value, value) ==
    LET syms == get_symmetries(g)
    IN  [k \in 1..Len(syms) |-> Example(syms[k], end_value)]
        \o [k \in 1..Len(syms) |-> Example(Neg(syms[k]), ONE - end_value)]

\* variant: no opponent-side examples on the terminal ply
TerminalExamplesNoComplement(g, end_value, value) ==
    LET syms == get_symmetries(g)
    IN  [k \in 1..Len(syms) |-> Example(syms[k], end_value)]

\* data += [(s, end_value) for s in ...]; data += [(-s, 1-value) for s in ...]
TerminalExamples(g, end_value, value) ==
    LET syms == get_symmetries(g)
    IN  [k \in 1..Len(syms) |-> Example(syms[k], end_value)]
        \o [k \in 1..Len(syms) |-> Example(Neg(syms[k]), ONE - value)]

SpIdle ==
    [pc |-> "idle", games |-> 0, alpha |-> 0, n |-> 0, m |-> 0, game |-> Game,
     action |-> 0, v_prime |-> 0, value |-> 0, end_value |-> 0, data |-> <<>>]

\* observers of a self_play call: est is the raw output of player.model(state)
\* (line 22, before line 23 overwrites value), mark the length of data when the
\* current step began, log the plies and terminal value of every finished game,
\* flips the number of non-terminal plies so far, endless whether the game
\* adapter at hand is one whose is_over() never reports a terminal value
SpObsIdle == [est |-> 0, mark |-> 0, log |-> <<>>, flips |-> 0, endless |-> FALSE]

\* entry of self_play: data = []
SpEntry(games, alpha) ==
    [SpIdle EXCEPT !.pc = "for_n", !.games = games, !.alpha = alpha]

\* for n in range(games): game = Game()   /   return data
SpNextGame ==
    /\ sp.pc = "for_n"
    /\ IF sp.n < sp.games
          THEN sp' = [sp EXCEPT !.pc = "premove", !.game = Game, !.m = 0]
          ELSE sp' = [sp EXCEPT !.pc = "return"]
    /\ UNCHANGED <<sp_obs, cmp, cmp_obs, main, main_obs, tr, tr_obs, sched>>

\* lines 18-25: query the player, evaluate the state, blend, emit 2m examples
SpPreMove ==
    /\ sp.pc = "premove"
    /\ \E a \in LegalMoves(sp.game), vp \in Estimates, est \in Estimates :
          LET target == Target(est, vp, sp.alpha)
          IN  /\ sp' = [sp EXCEPT !.pc = "execute", !.action = a, !.v_prime = vp,
                                  !.value = target,
                                  !.data = sp.data \o PreMoveExamples(sp.game, target)]
              /\ sp_obs' = [sp_obs EXCEPT !.est = est, !.mark = Len(sp.data)]
    /\ UNCHANGED <<cmp, cmp_obs, main, main_obs, tr, tr_obs, sched>>

\* variant: only a win ends the game (if end_value == 1)
IsTerminalWinOnly(end_value) == end_value = WIN

\* line 30, `if end_value:`: every non-zero value is truthy
IsTerminal(end_value) == end_value # 0

\* lines 27-36: execute the move, query is_over, emit on a terminal ply, else flip
SpExecute ==
    /\ sp.pc = "execute"
    /\ LET g1 == execute_move(sp.game, sp.action)
       IN  \E ev \in IF sp_obs.endless THEN EndlessOutcomes
                                      ELSE IsOverOutcomes(g1, MaxFlips - sp_obs.flips) :
              IF IsTerminal(ev)
                 THEN /\ sp' = [sp EXCEPT !.pc = "for_n", !.game = g1, !.end_value = ev,
                                          !.n = sp.n + 1,
                                          !.data = sp.data
                                                   \o TerminalExamples(g1, ev, sp.value)]
                      /\ sp_obs' = [sp_obs EXCEPT !.mark = Len(sp.data),
                                                  !.log = Append(@, [plies |-> sp.m + 1,
                                                                     end |-> ev])]
                 ELSE /\ sp' = [sp EXCEPT !.pc = "premove", !.game = flip(g1),
                                          !.end_value = ev, !.m = sp.m + 1]
                      /\ sp_obs' = [sp_obs EXCEPT !.mark = Len(sp.data), !.flips = @ + 1]
    /\ UNCHANGED <<cmp, cmp_obs, main, main_obs, tr, tr_obs, sched>>

(***************************************************************************)
(* compare                                                                 *)
(***************************************************************************)
Players == {"player_i", "player_j"}

\* score = {player_i:0, player_j:0, None:0}
ScoreInit == [k \in Players \cup {"None"} |-> 0]

CmpIdle ==
    [pc |-> "idle", games |-> 0, n |-> 0, m |-> 0, player |-> "None", game |-> Game,
     end_value |-> 0, score |-> ScoreInit]

\* observer of a compare call: who made the first move of each game
CmpObsIdle == [starters |-> <<>>]

CmpEntry(games) == [CmpIdle EXCEPT !.pc = "for_n", !.games = games]

\* variant: the split computed with integer division (n < games // 2)
StartingPlayerFloorDiv(n, games) ==
    IF n < games \div 2 THEN "player_i" ELSE "player_j"

\* player = player_i if n < games/2 else player_j
StartingPlayer(n, games) == IF 2 * n < games THEN "player_i" ELSE "player_j"

\* player = player_j if player is player_i else player_i
OtherPlayer(p) == IF p = "player_i" THEN "player_j" ELSE "player_i"

\* variant: any terminal value credits the mover (if end_value: winner = player)
WinnerAnyTerminal(player, end_value) == player

\* winner = player if end_value == 1 else None
Winner(player, end_value) == IF end_value = WIN THEN player ELSE "None"

\* variant: only wins are tallied, a drawn game is dropped
CreditWinsOnly(score, winner) ==
    IF winner = "None" THEN score ELSE [score EXCEPT ![winner] = @ + 1]

\* score[winner] += 1
Credit(score, winner) == [score EXCEPT ![winner] = @ + 1]

\* for n in range(games): game = Game(); choose the starter   /   return
CmpNextGame ==
    /\ cmp.pc = "for_n"
    /\ IF cmp.n < cmp.games
          THEN cmp' = [cmp EXCEPT !.pc = "move", !.game = Game, !.m = 0,
                                  !.player = StartingPlayer(cmp.n, cmp.games)]
          ELSE cmp' = [cmp EXCEPT !.pc = "return"]
    /\ UNCHANGED <<sp, sp_obs, cmp_obs, main, main_obs, tr, tr_obs, sched>>

\* lines 51-62: one ply of the current mover
CmpMove ==
    /\ cmp.pc = "move"
    /\ \E a \in LegalMoves(cmp.game) :
          LET g1 == execute_move(cmp.game, a)
          IN  \E ev \in IsOverOutcomes(g1, 1) :
                 IF ev # 0
                    THEN cmp' = [cmp EXCEPT !.pc = "for_n", !.game = g1, !.end_value = ev,
                                            !.n = cmp.n + 1,
                                            !.score = Credit(cmp.score,
                                                             Winner(cmp.player, ev))]
                    ELSE cmp' = [cmp EXCEPT !.game = flip(g1), !.end_value = ev,
                                            !.m = cmp.m + 1,
                                            !.player = OtherPlayer(cmp.player)]
    /\ cmp_obs' = IF cmp.m = 0
                     THEN [cmp_obs EXCEPT !.starters = Append(@, cmp.player)]
                     ELSE cmp_obs
    /\ UNCHANGED <<sp, sp_obs, main, main_obs, tr, tr_obs, sched>>

\* return score[player_i], score[None], score[player_j]
CmpResult == <<cmp.score["player_i"], cmp.score["None"], cmp.score["player_j"]>>

(***************************************************************************)
(* main: the iteration loop                                                *)
(*                                                                         *)
(* Examples are named by their generation number (1, 2, ...); the model    *)
(* parameters by the number of gradient passes applied to them; None by 0  *)
(* (data_limit) or by the empty tuple (score before the first evaluation). *)
(***************************************************************************)
MainIdle ==
    [pc |-> "idle", iteration |-> 0, data_limit |-> 0, data |-> <<>>, new_data |-> <<>>,
     model |-> 0, epoch |-> 0, score |-> <<>>, best_score |-> <<0, 0, 0>>,
     files |-> <<>>, best |-> [written |-> FALSE, params |-> 0], pass |-> "fit",
     seed |-> [given |-> FALSE, value |-> 0], rng |-> [seeded |-> FALSE, value |-> 0]]

\* observers of a run: gen counts the examples generated, promotions the writes
\* of best.params, evaluated names the parameters the last evaluation played
\* with, best_from the parameters whose evaluation earned the best record,
\* seedings the calls that seeded the generators
MainObsIdle ==
    [gen |-> 0, promotions |-> 0, evaluated |-> 0, best_from |-> 0, seedings |-> 0]

\* best_score = 0, 0, 0; data, data_limit = [], None (or a configured capacity)
MainEntry(data_limit) == [MainIdle EXCEPT !.pc = "save", !.data_limit = data_limit]

\* variant: only the first entries (the wins) are compared
TupleGreaterFirst(a, b) == a[1] > b[1]

\* variant: the comparison written as score >= best_score
TupleGreaterOrEqual(a, b) ==
    a = b \/ \E i \in 1..Len(a) : a[i] > b[i] /\ \A j \in 1..(i - 1) : a[j] = b[j]

\* variant: more wins, or as many wins and fewer losses
TupleGreaterWinsLosses(a, b) == a[1] > b[1] \/ (a[1] = b[1] /\ a[3] < b[3])

\* Python's order on tuples of equal length: the first differing entry decides
TupleGreater(a, b) ==
    \E i \in 1..Len(a) : a[i] > b[i] /\ \A j \in 1..(i - 1) : a[j] = b[j]

\* if iteration and score > best_score
Promotes(iteration, score, best_score) ==
    iteration # 0 /\ TupleGreater(score, best_score)

\* variant: the slice taken from the front, seq[:k]
LastKHead(seq, k) == IF Len(seq) <= k THEN seq ELSE SubSeq(seq, 1, k)

\* seq[-k:] for k > 0
LastK(seq, k) ==
    IF Len(seq) <= k THEN seq ELSE SubSeq(seq, Len(seq) - k + 1, Len(seq))

\* data = (data + new_data)[-data_limit:] if data_limit else new_data
AppendStep(data, new_data, data_limit) ==
    IF data_limit # 0 THEN LastK(data \o new_data, data_limit) ELSE new_data

\* random.shuffle(data): any rearrangement of the list, in place
Shuffles(data) ==
    {[i \in 1..Len(data) |-> data[p[i]]] : p \in Permutations(1..Len(data))}

\* the triples compare(..., games) can return
ScoreTriples(games) ==
    {<<w, d, games - w - d>> : w \in 0..games, d \in 0..games} \cap (Nat \X Nat \X Nat)

MaxCapacity == 4
MaxStream == 12

\* the append step on its own: a buffer of capacity data_limit, nothing else
\* of main() running
AppendEntry(data_limit) == [MainIdle EXCEPT !.pc = "append", !.data_limit = data_limit]

\* line 145 applied to one more batch (a batch may be empty)
AppendOnly ==
    /\ main.pc = "append"
    /\ main_obs.gen < MaxStream
    /\ \E len \in 0..MaxNew :
          LET new_data == [i \in 1..len |-> main_obs.gen + i]
          IN  /\ main' = [main EXCEPT
                            !.new_data = new_data,
                            !.data = AppendStep(main.data, new_data, main.data_limit)]
              /\ main_obs' = [main_obs EXCEPT !.gen = @ + len]
    /\ UNCHANGED <<sp, sp_obs, cmp, cmp_obs, tr, tr_obs, sched>>

\* the values of --seed: absent (None), or an integer
SeedValues == {0 - 1, 0, 1}
Seeds ==
    {[given |-> FALSE, value |-> 0]} \cup {[given |-> TRUE, value |-> v] : v \in SeedValues}

\* line 106, `if seed:`: None and 0 are falsy, every other integer truthy
SeedTruthy(seed) == seed.given /\ seed.value # 0

\* the process as main() is entered with the parsed --seed (lines 105, 168)
MainStart(seed) == [MainIdle EXCEPT !.pc = "start", !.seed = seed]

\* lines 106-108: seed torch and random when `seed` is truthy
MainSeed ==
    /\ main.pc = "start"
    /\ main' = [main EXCEPT
                  !.pc = "build",
                  !.rng = IF SeedTruthy(main.seed)
                             THEN [seeded |-> TRUE, value |-> main.seed.value]
                             ELSE @]
    /\ main_obs' = [main_obs EXCEPT
                      !.seedings = IF SeedTruthy(main.seed) THEN @ + 1 ELSE @]
    /\ UNCHANGED <<sp, sp_obs, cmp, cmp_obs, tr, tr_obs, sched>>

\* lines 110-128: build the model, the players, the best record and the buffer
MainBuild ==
    /\ main.pc = "build"
    /\ main' = [main EXCEPT
                  !.pc = "save", !.model = 0, !.best_score = <<0, 0, 0>>,
                  !.data = <<>>, !.data_limit = 0]
    /\ UNCHANGED <<sp, sp_obs, cmp, cmp_obs, main_obs, tr, tr_obs, sched>>

\* lines 134-136: save model_<iteration>.params
MainSave ==
    /\ main.pc = "save"
    /\ main' = [main EXCEPT !.pc = "promote", !.files = Append(@, main.model)]
    /\ UNCHANGED <<sp, sp_obs, cmp, cmp_obs, main_obs, tr, tr_obs, sched>>

\* lines 137-139: promote the previous score, save best.params
MainPromote ==
    /\ main.pc = "promote"
    /\ LET promote == Promotes(main.iteration, main.score, main.best_score)
       IN  /\ main' = [main EXCEPT
                         !.pc = "self_play",
                         !.best = IF promote THEN [written |-> TRUE, params |-> main.model]
                                             ELSE @,
                         !.best_score = IF promote THEN main.score ELSE @]
           /\ main_obs' = [main_obs EXCEPT
                             !.promotions = IF promote THEN @ + 1 ELSE @,
                             !.best_from = IF promote THEN main_obs.evaluated ELSE @]
    /\ UNCHANGED <<sp, sp_obs, cmp, cmp_obs, tr, tr_obs, sched>>

\* lines 144-145: new_data = self_play(...); append with eviction
MainSelfPlay ==
    /\ main.pc = "self_play"
    /\ \E len \in 1..MaxNew :
          LET new_data == [i \in 1..len |-> main_obs.gen + i]
          IN  /\ main' = [main EXCEPT
                            !.pc = "train", !.epoch = 0, !.new_data = new_data,
                            !.data = AppendStep(main.data, new_data, main.data_limit)]
              /\ main_obs' = [main_obs EXCEPT !.gen = @ + len]
    /\ UNCHANGED <<sp, sp_obs, cmp, cmp_obs, tr, tr_obs, sched>>

\* variant: the loss-reporting pass steps the optimizer too
ReportPassStepping(model) == model + 1

\* lines 87-94: the loss-reporting pass runs under no_grad, without optimr.step()
ReportPass(model) == model

\* line 152, first half of an epoch of train(): shuffle data in place, then the
\* pass of gradient updates (lines 74-84)
MainTrainEpoch ==
    /\ main.pc = "train"
    /\ main.pass = "fit"
    /\ main.epoch < TrainEpochs
    /\ \E shuffled \in Shuffles(main.data) :
          main' = [main EXCEPT !.data = shuffled, !.model = @ + 1, !.pass = "report"]
    /\ UNCHANGED <<sp, sp_obs, cmp, cmp_obs, main_obs, tr, tr_obs, sched>>

\* second half of the epoch: the loss-reporting pass and the print (lines 86-97)
MainTrainReport ==
    /\ main.pc = "train"
    /\ main.pass = "report"
    /\ main' = [main EXCEPT !.model = ReportPass(@), !.epoch = @ + 1, !.pass = "fit"]
    /\ UNCHANGED <<sp, sp_obs, cmp, cmp_obs, main_obs, tr, tr_obs, sched>>

\* train() returns after the last epoch
MainTrainDone ==
    /\ main.pc = "train"
    /\ main.pass = "fit"
    /\ main.epoch = TrainEpochs
    /\ main' = [main EXCEPT !.pc = "evaluate"]
    /\ UNCHANGED <<sp, sp_obs, cmp, cmp_obs, main_obs, tr, tr_obs, sched>>

\* line 158: score = compare(model_player, random_player, 100); next iteration
MainEvaluate ==
    /\ main.pc = "evaluate"
    /\ main.iteration < MaxIter
    /\ \E score \in ScoreTriples(EvalGames) :
          main' = [main EXCEPT !.pc = "save", !.score = score, !.iteration = @ + 1]
    /\ main_obs' = [main_obs EXCEPT !.evaluated = main.model]
    /\ UNCHANGED <<sp, sp_obs, cmp, cmp_obs, tr, tr_obs, sched>>

(***************************************************************************)
(* binary64 arithmetic, as Python's float computes                         *)
(*                                                                         *)
(* A natural number is the sequence of its digits in base 2^LimbBits,      *)
(* least significant first, without leading zeros; a double is m * 2^e     *)
(* with m of Precision bits (or zero).  Subnormals, infinities and NaN are *)
(* out of the range used here.                                             *)
(***************************************************************************)
Precision == 53
LimbBits == 12

Base == 2 ^ LimbBits

RECURSIVE Trim(_)
Trim(a) ==
    IF a = <<>> THEN <<>>
    ELSE IF a[Len(a)] = 0 THEN Trim(SubSeq(a, 1, Len(a) - 1)) ELSE a

Limb(a, i) == IF i >= 1 /\ i <= Len(a) THEN a[i] ELSE 0

Rest(a) == IF a = <<>> THEN <<>> ELSE Tail(a)

RECURSIVE AddCarry(_, _, _)
AddCarry(a, b, c) ==
    IF a = <<>> /\ b = <<>>
       THEN IF c = 0 THEN <<>> ELSE <<c>>
       ELSE LET s == Limb(a, 1) + Limb(b, 1) + c
            IN  <<s % Base>> \o AddCarry(Rest(a), Rest(b), s \div Base)

BAdd(a, b) == AddCarry(a, b, 0)

RECURSIVE SubBorrow(_, _, _)
SubBorrow(a, b, c) ==
    IF a = <<>> /\ b = <<>>
       THEN <<>>
       ELSE LET d == Limb(a, 1) - Limb(b, 1) - c
            IN  <<(d + Base) % Base>> \o SubBorrow(Rest(a), Rest(b), IF d < 0 THEN 1 ELSE 0)

\* a - b for a >= b
BSub(a, b) == Trim(SubBorrow(a, b, 0))

RECURSIVE MulLimb(_, _, _)
\* a * d + c for a digit d
MulLimb(a, d, c) ==
    IF a = <<>>
       THEN IF c = 0 THEN <<>> ELSE <<c>>
       ELSE LET s == a[1] * d + c
            IN  <<s % Base>> \o MulLimb(Tail(a), d, s \div Base)

RECURSIVE BMul(_, _)
BMul(a, b) ==
    IF a = <<>> \/ b = <<>> THEN <<>>
    ELSE LET rest == BMul(Tail(a), b)
         IN  BAdd(Trim(MulLimb(b, a[1], 0)), IF rest = <<>> THEN <<>> ELSE <<0>> \o rest)

BLess(a, b) ==
    \/ Len(a) < Len(b)
    \/ /\ Len(a) = Len(b)
       /\ \E i \in 1..Len(a) :
             /\ a[i] < b[i]
             /\ \A j \in (i + 1)..Len(a) : a[j] = b[j]

\* a * 2^n
Shl(a, n) ==
    IF a = <<>> THEN <<>>
    ELSE [i \in 1..(n \div LimbBits) |-> 0] \o MulLimb(a, 2 ^ (n % LimbBits), 0)

\* a \div 2^n
Shr(a, n) ==
    LET q == n \div LimbBits
        r == n % LimbBits
    IN  Trim([i \in 1..(Len(a) - q) |->
                (a[i + q] \div (2 ^ r)) + (Limb(a, i + q + 1) % (2 ^ r)) * (2 ^ (LimbBits - r))])

\* a % 2^n
LowBits(a, n) ==
    LET q == n \div LimbBits
        r == n % LimbBits
    IN  Trim([i \in 1..(q + 1) |-> IF i <= q THEN Limb(a, i) ELSE Limb(a, i) % (2 ^ r)])

\* the number of bits of a
BitLen(a) ==
    IF a = <<>> THEN 0
    ELSE (Len(a) - 1) * LimbBits
            + (CHOOSE k \in 1..LimbBits : 2 ^ (k - 1) <= a[Len(a)] /\ a[Len(a)] < 2 ^ k)

FZero == [m |-> <<>>, e |-> 0]

\* the double nearest to n * 2^e, ties to even
Round(n, e) ==
    LET L == BitLen(n)
    IN  IF L = 0 THEN FZero
        ELSE IF L <= Precision
           THEN [m |-> Shl(n, Precision - L), e |-> e - (Precision - L)]
           ELSE LET d    == L - Precision
                    q    == Shr(n, d)
                    r    == LowBits(n, d)
                    half == Shl(<<1>>, d - 1)
                    up   == BLess(half, r) \/ (r = half /\ q[1] % 2 = 1)
                    q1   == IF up THEN BAdd(q, <<1>>) ELSE q
                IN  IF BitLen(q1) > Precision
                       THEN [m |-> Shr(q1, 1), e |-> e + d + 1]
                       ELSE [m |-> q1, e |-> e + d]

MinInt(a, b) == IF a <= b THEN a ELSE b

\* x * y
FMul(x, y) == Round(BMul(x.m, y.m), x.e + y.e)

\* x + y
FAdd(x, y) ==
    IF x.m = <<>> THEN y
    ELSE IF y.m = <<>> THEN x
    ELSE LET e == MinInt(x.e, y.e)
         IN  Round(BAdd(Shl(x.m, x.e - e), Shl(y.m, y.e - e)), e)

\* exact comparisons, sums and differences of numbers m * 2^e
DLess(x, y) ==
    LET e == MinInt(x.e, y.e)
    IN  BLess(Shl(x.m, x.e - e), Shl(y.m, y.e - e))

DLessEq(x, y) == ~DLess(y, x)

DAdd(x, y) ==
    LET e == MinInt(x.e, y.e)
    IN  [m |-> BAdd(Shl(x.m, x.e - e), Shl(y.m, y.e - e)), e |-> e]

DAbsDiff(x, y) ==
    LET e == MinInt(x.e, y.e)
        a == Shl(x.m, x.e - e)
        b == Shl(y.m, y.e - e)
    IN  [m |-> IF BLess(a, b) THEN BSub(b, a) ELSE BSub(a, b), e |-> e]

DTwice(x) == [x EXCEPT !.e = @ + 1]

\* one unit in the last place of the double x
Ulp(x) == [m |-> <<1>>, e |-> x.e]

\* 0x1999999999999a, the significand of the literals 0.8, 0.4, 0.2 and 0.1,
\* in digits of three hexadecimal places: 0x99a, 0x999, 0x999, 0x999, 0x19
TenthSignificand == <<2458, 2457, 2457, 2457, 25>>

\* the literal 0.8 = 0x1.999999999999ap-1, the literal 0.2 = 0x1.999999999999ap-3
F08 == [m |-> TenthSignificand, e |-> 0 - 1 - (Precision - 1)]
F02 == [m |-> TenthSignificand, e |-> 0 - 3 - (Precision - 1)]

\* 2 ** (-k), exact
Pow2Neg(k) == [m |-> Shl(<<1>>, Precision - 1), e |-> 0 - k - (Precision - 1)]

(***************************************************************************)
(* The exploration schedule of value_train.main                            *)
(*                                                                         *)
(* 2 ** (-iteration/32) is a power of two exactly when 32 divides          *)
(* iteration: the schedule is followed through those iterations.           *)
(***************************************************************************)
HalfLife == 32
EpsBits == 4
MaxHalvings == 5

\* variant: the exponent with the wrong sign, 2 ** (iteration/32)
ScheduleGrowing(epsilon, iteration) ==
    FAdd(FMul(FMul(F08, epsilon), Pow2Neg(0 - (iteration \div HalfLife))),
         FMul(F02, epsilon))

\* line 119: 0.8*epsilon*2**(-iteration/32) + 0.2*epsilon, for iteration a
\* multiple of 32
Schedule(epsilon, iteration) ==
    FAdd(FMul(FMul(F08, epsilon), Pow2Neg(iteration \div HalfLife)),
         FMul(F02, epsilon))

\* values of --epsilon: the doubles j/2^EpsBits of [0, 1], and the doubles
\* nearest to 0.8, 0.4, 0.2 and 0.1
Epsilons ==
    {Round(Trim(<<j>>), 0 - EpsBits) : j \in 0..(2 ^ EpsBits)}
       \cup {[m |-> TenthSignificand, e |-> 0 - s - (Precision - 1)] : s \in 1..4}

\* prev (the _epsilon of the sample before) and ran (the number of samples)
\* are observers
SchedIdle ==
    [pc |-> "idle", epsilon |-> FZero, iteration |-> 0, eps_i |-> FZero,
     prev |-> FZero, ran |-> 0]

SchedEntry(epsilon) == [SchedIdle EXCEPT !.pc = "loop", !.epsilon = epsilon]

\* lines 119-121: _epsilon of this iteration, passed to self_play
SchedSelfPlay ==
    /\ sched.pc = "loop"
    /\ sched.iteration <= MaxHalvings * HalfLife
    /\ sched' = [sched EXCEPT
                   !.pc = "self_play",
                   !.eps_i = Schedule(sched.epsilon, sched.iteration),
                   !.prev = sched.eps_i,
                   !.ran = @ + 1]
    /\ UNCHANGED <<sp, sp_obs, cmp, cmp_obs, main, main_obs, tr, tr_obs>>

\* lines 122-135 and line 105, HalfLife times over: the loop runs on to the
\* next iteration that is a multiple of 32
SchedAdvance ==
    /\ sched.pc = "self_play"
    /\ sched' = [sched EXCEPT !.pc = "loop", !.iteration = @ + HalfLife]
    /\ UNCHANGED <<sp, sp_obs, cmp, cmp_obs, main, main_obs, tr, tr_obs>>

(***************************************************************************)
(* train, batch by batch                                                   *)
(***************************************************************************)
MaxData == 3
MaxBatch == 2

\* variant: the slice one entry too long, data[i:min(i + n + 1, l)]
BatchOverlong(data, i, n) ==
    SubSeq(data, i + 1, IF i + n + 1 <= Len(data) THEN i + n + 1 ELSE Len(data))

\* line 69: data[i:min(i + n, l)]
Batch(data, i, n) ==
    SubSeq(data, i + 1, IF i + n <= Len(data) THEN i + n ELSE Len(data))

TrIdle ==
    [pc |-> "idle", data |-> <<>>, epochs |-> 0, batch_size |-> 1, epoch |-> 0,
     i |-> 0, model |-> 0, mode |-> "train", losses |-> <<>>, error |-> "None"]

\* observers of the current epoch: shuffles counts the calls of
\* random.shuffle, fit and report list the batches of the two passes in the
\* order they were drawn, model0 is the parameters the epoch started with
TrObsIdle == [shuffles |-> 0, fit |-> <<>>, report |-> <<>>, model0 |-> 0]

TrEntry(data, epochs, batch_size) ==
    [TrIdle EXCEPT !.pc = "for_epoch", !.data = data, !.epochs = epochs,
                   !.batch_size = batch_size]

\* lines 73-77: next epoch (or return); shuffle the data, model.train()
TrEpoch ==
    /\ tr.pc = "for_epoch"
    /\ IF tr.epoch < tr.epochs
          THEN /\ \E shuffled \in Shuffles(tr.data) :
                     tr' = [tr EXCEPT !.pc = "fit", !.data = shuffled, !.mode = "train",
                                      !.i = 0]
               /\ tr_obs' = [shuffles |-> 1, fit |-> <<>>, report |-> <<>>,
                             model0 |-> tr.model]
          ELSE /\ tr' = [tr EXCEPT !.pc = "return"]
               /\ UNCHANGED tr_obs
    /\ UNCHANGED <<sp, sp_obs, cmp, cmp_obs, main, main_obs, sched>>

\* lines 78-84: one batch of the gradient pass, one optimr.step()
TrFitBatch ==
    /\ tr.pc = "fit"
    /\ tr.i < Len(tr.data)
    /\ tr' = [tr EXCEPT !.model = @ + 1, !.i = @ + tr.batch_size]
    /\ tr_obs' = [tr_obs EXCEPT !.fit = Append(@, Batch(tr.data, tr.i, tr.batch_size))]
    /\ UNCHANGED <<sp, sp_obs, cmp, cmp_obs, main, main_obs, sched>>

\* lines 86-89: the gradient pass is over; losses = [], model.eval()
TrFitDone ==
    /\ tr.pc = "fit"
    /\ tr.i >= Len(tr.data)
    /\ tr' = [tr EXCEPT !.pc = "report", !.losses = <<>>, !.mode = "eval", !.i = 0]
    /\ UNCHANGED <<sp, sp_obs, cmp, cmp_obs, main, main_obs, tr_obs, sched>>

\* lines 90-94: one batch of the loss-reporting pass
TrReportBatch ==
    /\ tr.pc = "report"
    /\ tr.i < Len(tr.data)
    /\ tr' = [tr EXCEPT !.model = ReportPass(@), !.i = @ + tr.batch_size,
                        !.losses = Append(@, Len(tr.losses) + 1)]
    /\ tr_obs' = [tr_obs EXCEPT !.report = Append(@, Batch(tr.data, tr.i, tr.batch_size))]
    /\ UNCHANGED <<sp, sp_obs, cmp, cmp_obs, main, main_obs, sched>>

\* lines 96-97: print sum(losses)/len(losses), a ZeroDivisionError when
\* losses is empty
TrPrint ==
    /\ tr.pc = "report"
    /\ tr.i >= Len(tr.data)
    /\ tr' = IF Len(tr.losses) = 0
                THEN [tr EXCEPT !.pc = "error", !.error = "ZeroDivisionError"]
                ELSE [tr EXCEPT !.pc = "for_epoch", !.epoch = @ + 1]
    /\ UNCHANGED <<sp, sp_obs, cmp, cmp_obs, main, main_obs, tr_obs, sched>>

InitSelfPlay ==
    /\ \E games \in 0..MaxGames, alpha \in Alphas : sp = SpEntry(games, alpha)
    /\ sp_obs = SpObsIdle
    /\ cmp = CmpIdle
    /\ cmp_obs = CmpObsIdle
    /\ main = MainIdle
    /\ main_obs = MainObsIdle
    /\ tr = TrIdle
    /\ tr_obs = TrObsIdle
    /\ sched = SchedIdle

NextSelfPlay == SpNextGame \/ SpPreMove \/ SpExecute

SpecSelfPlay == InitSelfPlay /\ [][NextSelfPlay]_vars

\* self_play with either kind of game adapter, under the default alpha; the
\* interpreter keeps executing a thread that can take a step
InitSelfPlayLive ==
    /\ \E games \in 0..MaxGames : sp = SpEntry(games, AlphaDen \div 5)
    /\ \E endless \in BOOLEAN : sp_obs = [SpObsIdle EXCEPT !.endless = endless]
    /\ cmp = CmpIdle
    /\ cmp_obs = CmpObsIdle
    /\ main = MainIdle
    /\ main_obs = MainObsIdle
    /\ tr = TrIdle
    /\ tr_obs = TrObsIdle
    /\ sched = SchedIdle

SpecSelfPlayLive == InitSelfPlayLive /\ [][NextSelfPlay]_vars /\ WF_vars(NextSelfPlay)

InitCompare ==
    /\ \E games \in 0..MaxCmpGames : cmp = CmpEntry(games)
    /\ cmp_obs = CmpObsIdle
    /\ sp = SpIdle
    /\ sp_obs = SpObsIdle
    /\ main = MainIdle
    /\ main_obs = MainObsIdle
    /\ tr = TrIdle
    /\ tr_obs = TrObsIdle
    /\ sched = SchedIdle

NextCompare == CmpNextGame \/ CmpMove

SpecCompare == InitCompare /\ [][NextCompare]_vars

Init ==
    /\ \E data_limit \in 0..MaxLimit : main = MainEntry(data_limit)
    /\ main_obs = MainObsIdle
    /\ tr = TrIdle
    /\ tr_obs = TrObsIdle
    /\ sched = SchedIdle
    /\ sp = SpIdle
    /\ sp_obs = SpObsIdle
    /\ cmp = CmpIdle
    /\ cmp_obs = CmpObsIdle

Next ==
    \/ MainSave \/ MainPromote \/ MainSelfPlay
    \/ MainTrainEpoch \/ MainTrainReport \/ MainTrainDone \/ MainEvaluate

Spec == Init /\ [][Next]_vars

\* the whole program from its entry with a parsed --seed
InitStartup ==
    /\ \E seed \in Seeds : main = MainStart(seed)
    /\ main_obs = MainObsIdle
    /\ sp = SpIdle
    /\ sp_obs = SpObsIdle
    /\ cmp = CmpIdle
    /\ cmp_obs = CmpObsIdle
    /\ tr = TrIdle
    /\ tr_obs = TrObsIdle
    /\ sched = SchedIdle

NextStartup == MainSeed \/ MainBuild \/ Next

SpecStartup == InitStartup /\ [][NextStartup]_vars

InitTrain ==
    /\ \E len \in 0..MaxData, epochs \in 0..TrainEpochs, batch_size \in 1..MaxBatch :
          tr = TrEntry([i \in 1..len |-> i], epochs, batch_size)
    /\ tr_obs = TrObsIdle
    /\ sp = SpIdle
    /\ sp_obs = SpObsIdle
    /\ cmp = CmpIdle
    /\ cmp_obs = CmpObsIdle
    /\ main = MainIdle
    /\ main_obs = MainObsIdle
    /\ sched = SchedIdle

NextTrain == TrEpoch \/ TrFitBatch \/ TrFitDone \/ TrReportBatch \/ TrPrint

SpecTrain == InitTrain /\ [][NextTrain]_vars

InitAppend ==
    /\ \E data_limit \in 1..MaxCapacity : main = AppendEntry(data_limit)
    /\ main_obs = MainObsIdle
    /\ sp = SpIdle
    /\ sp_obs = SpObsIdle
    /\ cmp = CmpIdle
    /\ cmp_obs = CmpObsIdle
    /\ tr = TrIdle
    /\ tr_obs = TrObsIdle
    /\ sched = SchedIdle

NextAppend == AppendOnly

SpecAppend == InitAppend /\ [][NextAppend]_vars

InitSchedule ==
    /\ \E epsilon \in Epsilons : sched = SchedEntry(epsilon)
    /\ sp = SpIdle
    /\ sp_obs = SpObsIdle
    /\ cmp = CmpIdle
    /\ cmp_obs = CmpObsIdle
    /\ main = MainIdle
    /\ main_obs = MainObsIdle
    /\ tr = TrIdle
    /\ tr_obs = TrObsIdle

NextSchedule == SchedSelfPlay \/ SchedAdvance

SpecSchedule == InitSchedule /\ [][NextSchedule]_vars

(***************************************************************************)
(* Properties of self_play (checked under SpecSelfPlay)                    *)
(***************************************************************************)
\* a game has just ended: sp.game is its terminal state
SpGameEnded == sp.pc \in {"for_n", "return"} /\ sp.n > 0

\* the 2m examples emitted by the last step
LastBlock == SubSeq(sp.data, sp_obs.mark + 1, Len(sp.data))

\* 1 - (est + alpha * (v_prime - est)), scaled
ComplementOfTarget ==
    ONE - (sp_obs.est + (sp.alpha * (sp.v_prime - sp_obs.est)) \div AlphaDen)

\* C5 as stated: on the terminal ply the engine emits (s, terminal_value) for
\* every symmetry s of the post-move state and then (-s, 1 - value) with value
\* the model's raw estimate of the last pre-move state.
C5_RawEstimateComplement ==
    SpGameEnded =>
       /\ Len(LastBlock) = 2 * NumSym
       /\ \A k \in 1..NumSym :
             /\ LastBlock[k] = [s |-> Rotate(sp.game.board, k - 1), v |-> sp.end_value]
             /\ LastBlock[NumSym + k] =
                   [s |-> Neg(Rotate(sp.game.board, k - 1)), v |-> ONE - sp_obs.est]

\* C5 (amended): on the terminal ply the engine emits (s, terminal_value) for
\* every symmetry s of the post-move state and then (-s, 1 - target), where
\* target = value + alpha*(v_prime - value) is the bootstrapped target of the
\* last pre-move step (line 23 has overwritten value by then).
C5_TargetComplement ==
    SpGameEnded =>
       /\ sp.end_value \in {DRAW, WIN}
       /\ Len(LastBlock) = 2 * NumSym
       /\ \A k \in 1..NumSym :
             /\ LastBlock[k] = [s |-> Rotate(sp.game.board, k - 1), v |-> sp.end_value]
             /\ LastBlock[NumSym + k] =
                   [s |-> Neg(Rotate(sp.game.board, k - 1)), v |-> ComplementOfTarget]

\* a game ended in a draw after a ply whose look-ahead differed from the
\* model's estimate and was blended in with 0 < alpha < 1
C5_Witness ==
    /\ SpGameEnded
    /\ sp.end_value = DRAW
    /\ sp.alpha # 0 /\ sp.alpha # AlphaDen
    /\ sp_obs.est = ONE /\ sp.v_prime = 0

\* C6: one pre-move step appends exactly 2m examples, (s, target) for each
\* symmetry s of the current state followed by (-s, 1 - target) for each,
\* all with the one target, and the move has not been executed yet.
C6_Augmentation ==
    sp.pc = "execute" =>
       /\ Len(sp.data) = sp_obs.mark + 2 * NumSym
       /\ \A k \in 1..NumSym :
             /\ LastBlock[k] = [s |-> Rotate(sp.game.board, k - 1), v |-> sp.value]
             /\ LastBlock[NumSym + k] =
                   [s |-> Neg(Rotate(sp.game.board, k - 1)), v |-> ONE - sp.value]
       /\ sp.game.board[sp.action] = 0
       /\ sp.game.flips = sp.m

\* the pre-move step of a second ply (the state holds an opponent stone), with
\* a target strictly between 0 and 1
C6_Witness ==
    /\ sp.pc = "execute"
    /\ sp.m = 1
    /\ \E i \in 1..NCells : sp.game.board[i] = 0 - 1
    /\ sp.value > 0 /\ sp.value < ONE

RECURSIVE SizeOfGames(_)
\* sum over the finished games of plies*2*m + 2*m
SizeOfGames(log) ==
    IF log = <<>> THEN 0
    ELSE (log[1].plies * 2 * NumSym + 2 * NumSym) + SizeOfGames(Tail(log))

\* C7: a game of p plies contributes exactly p*2*m + 2*m examples, the result
\* is the concatenation of the games' examples in play order (game g's block
\* starts where game g-1's ends and closes with its terminal examples), and
\* one game of one ply won with m = 2 returns exactly 8 examples.
C7_OutputSize ==
    /\ sp.pc \in {"for_n", "return"} =>
          /\ Len(sp_obs.log) = sp.n
          /\ Len(sp.data) = SizeOfGames(sp_obs.log)
          /\ \A g \in 1..Len(sp_obs.log) :
                LET last == SizeOfGames(SubSeq(sp_obs.log, 1, g))
                IN  /\ sp.data[last - 2 * NumSym + 1].v = sp_obs.log[g].end
                    /\ sp.data[last - 2 * NumSym + 1].s[sp_obs.log[g].plies] # 0
    /\ sp.pc = "return" =>
          /\ sp.n = sp.games
          /\ (sp.games = 1 /\ sp_obs.log[1].plies = 1 /\ NumSym = 2) => Len(sp.data) = 8

\* two games returned: the first took two plies, the second one
C7_Witness ==
    /\ sp.pc = "return"
    /\ sp.games = 2
    /\ sp_obs.log[1].plies = 2
    /\ sp_obs.log[2].plies = 1
    /\ Len(sp.data) = 10 * NumSym

\* C8: the target attached to the pre-move examples is
\* value + alpha*(v_prime - value): the estimate itself for alpha = 0, the
\* look-ahead for alpha = 1, their mean for alpha = 0.5.
C8_Bootstrap ==
    sp.pc = "execute" =>
       /\ \A k \in 1..NumSym : LastBlock[k].v = sp.value
       /\ AlphaDen * sp.value =
             AlphaDen * sp_obs.est + sp.alpha * (sp.v_prime - sp_obs.est)
       /\ sp.alpha = 0 => sp.value = sp_obs.est
       /\ sp.alpha = AlphaDen => sp.value = sp.v_prime
       /\ 2 * sp.alpha = AlphaDen => 2 * sp.value = sp_obs.est + sp.v_prime

\* alpha = 0.5 blending an estimate of 0 with a look-ahead of 1
C8_Witness ==
    /\ sp.pc = "execute"
    /\ 2 * sp.alpha = AlphaDen
    /\ sp_obs.est = 0
    /\ sp.v_prime = ONE
    /\ sp.value = ONE \div 2

(***************************************************************************)
(* Properties of compare (checked under SpecCompare)                       *)
(***************************************************************************)
ScoreSum == cmp.score["player_i"] + cmp.score["None"] + cmp.score["player_j"]

ScoreKeys == Players \cup {"None"}

\* C1: compare conserves games: the three counters always sum to the number
\* of games finished, every finished game increments exactly one of them by
\* one, and the returned triple sums to num_games.
C1_Conservation ==
    /\ [](/\ ScoreSum = cmp.n
          /\ cmp.pc = "return" =>
                /\ cmp.n = cmp.games
                /\ CmpResult[1] + CmpResult[2] + CmpResult[3] = cmp.games)
    /\ [][cmp'.n # cmp.n =>
            /\ cmp'.n = cmp.n + 1
            /\ \E k \in ScoreKeys :
                  /\ cmp'.score[k] = cmp.score[k] + 1
                  /\ \A o \in ScoreKeys \ {k} : cmp'.score[o] = cmp.score[o]]_vars

\* a call with the largest number of games returned with one win for each
\* player and one draw
C1_Witness ==
    /\ cmp.pc = "return"
    /\ cmp.games = MaxCmpGames
    /\ \A k \in ScoreKeys : cmp.score[k] >= 1

FirstMoverOf(n, games) == IF 2 * n < games THEN "player_i" ELSE "player_j"

StartsOf(p) == Cardinality({g \in 1..Len(cmp_obs.starters) : cmp_obs.starters[g] = p})

\* C9: player_i makes the first move of game n iff n < N/2, the mover at ply
\* m is the game's starter iff m is even, the state has been flipped exactly
\* m times before ply m, and over a whole call the starts split
\* ceil(N/2) / floor(N/2).
C9_Turns ==
    /\ cmp.pc = "move" =>
          /\ cmp.player \in Players
          /\ (cmp.player = FirstMoverOf(cmp.n, cmp.games)) <=> (cmp.m % 2 = 0)
          /\ cmp.game.flips = cmp.m
    /\ \A g \in 1..Len(cmp_obs.starters) :
          cmp_obs.starters[g] = FirstMoverOf(g - 1, cmp.games)
    /\ cmp.pc = "return" =>
          /\ Len(cmp_obs.starters) = cmp.games
          /\ StartsOf("player_i") = (cmp.games + 1) \div 2
          /\ StartsOf("player_j") = cmp.games \div 2

\* the third ply of the last of three games: player_j started it and moves again
C9_Witness ==
    /\ cmp.pc = "move"
    /\ cmp.games = 3
    /\ cmp.n = 2
    /\ cmp.m = 2
    /\ cmp.player = "player_j"

\* C10: a game ending with the win sentinel adds one win to the player who
\* made the last move; any other terminal value adds one draw; the player
\* who did not make the last move is never credited.
C10_WinCredit ==
    [][(cmp.pc = "move" /\ cmp'.pc = "for_n") =>
         LET mover == cmp.player
             other == IF mover = "player_i" THEN "player_j" ELSE "player_i"
         IN  /\ cmp'.score[other] = cmp.score[other]
             /\ IF cmp'.end_value = WIN
                   THEN /\ cmp'.score[mover] = cmp.score[mover] + 1
                        /\ cmp'.score["None"] = cmp.score["None"]
                   ELSE /\ cmp'.score[mover] = cmp.score[mover]
                        /\ cmp'.score["None"] = cmp.score["None"] + 1]_vars

\* the first game was won on its second ply, by the player who did not start
C10_Witness ==
    /\ cmp.pc = "for_n"
    /\ cmp.n = 1
    /\ cmp.m = 1
    /\ cmp.end_value = WIN
    /\ cmp.player = "player_j"
    /\ cmp.score["player_j"] = 1
    /\ cmp.score["player_i"] = 0

(***************************************************************************)
(* Properties of main (checked under Spec)                                 *)
(***************************************************************************)
\* every example generated so far, in generation order
Generated == [i \in 1..main_obs.gen |-> i]

\* the k most recent of them, in generation order
MostRecent(k) ==
    LET n == IF main_obs.gen < k THEN main_obs.gen ELSE k
    IN  [i \in 1..n |-> main_obs.gen - n + i]

\* C2: with a capacity K configured the buffer always has length <= K and
\* holds exactly the K most recently generated examples in generation order.
C2_FifoBuffer ==
    main.data_limit # 0 =>
       /\ Len(main.data) <= main.data_limit
       /\ main.data = MostRecent(main.data_limit)

\* C3: with no capacity configured the buffer holds, after the append step
\* of iteration i, every example generated in iterations 0..i.
C3_FullHistory ==
    (main.data_limit = 0 /\ main.pc = "train" /\ main.epoch = 0) =>
       main.data = Generated

MainPromoted == main_obs'.promotions = main_obs.promotions + 1

\* more wins, or equal wins and fewer losses
BeatsOnWinsThenLosses(s, b) == s[1] > b[1] \/ (s[1] = b[1] /\ s[3] < b[3])

\* greater in the lexicographic order of (wins, draws, losses)
BeatsLexicographic(s, b) ==
    \/ s[1] > b[1]
    \/ s[1] = b[1] /\ s[2] > b[2]
    \/ s[1] = b[1] /\ s[2] = b[2] /\ s[3] > b[3]

\* what a promotion does, and what its absence leaves alone
PromotionEffect ==
    IF MainPromoted
       THEN /\ main'.best = [written |-> TRUE, params |-> main.model]
            /\ main'.best_score = main.score
       ELSE /\ main'.best = main.best
            /\ main'.best_score = main.best_score

\* C4 as stated: at the start of iteration i >= 1 the best checkpoint is
\* written and the best record replaced iff the previous score has more wins,
\* or equal wins and fewer losses, than the best record; never at iteration 0.
C4_WinsThenLosses ==
    [][(main.pc = "promote" /\ main'.pc = "self_play") =>
         /\ PromotionEffect
         /\ MainPromoted <=>
               (main.iteration >= 1 /\ BeatsOnWinsThenLosses(main.score, main.best_score))]_vars

\* C4 (amended): the promotion happens iff the previous score is greater than
\* the best record in the lexicographic order of (wins, draws, losses); that
\* is "more wins, or equal wins and fewer losses" whenever both triples sum
\* to the same number of games, which the initial record (0, 0, 0) does not.
C4_Lexicographic ==
    [][(main.pc = "promote" /\ main'.pc = "self_play") =>
         /\ PromotionEffect
         /\ MainPromoted <=>
               (main.iteration >= 1 /\ BeatsLexicographic(main.score, main.best_score))
         /\ (/\ main.iteration >= 1
             /\ main.score[1] + main.score[2] + main.score[3]
                  = main.best_score[1] + main.best_score[2] + main.best_score[3])
            => (BeatsLexicographic(main.score, main.best_score)
                  <=> BeatsOnWinsThenLosses(main.score, main.best_score))]_vars

\* the second promotion, at iteration 2, was won on a tie of wins: the record
\* of iteration 1 can only have been (0, 0, 2)
C4_Witness ==
    /\ main.pc = "self_play"
    /\ main.iteration = 2
    /\ main_obs.promotions = 2
    /\ main.best_score = <<0, 1, 1>>
    /\ main.best = [written |-> TRUE, params |-> main.model]

\* C12: with alpha, the estimates, the look-ahead values and the terminal
\* values in [0, 1], every example self_play emits (pre-move, its complement,
\* terminal, terminal complement) carries a target in [0, 1].
C12_TargetRange ==
    \A i \in 1..Len(sp.data) : sp.data[i].v >= 0 /\ sp.data[i].v <= ONE

\* a finished game of two plies whose data holds the four kinds of example,
\* with a blended target strictly inside the interval and a drawn outcome
C12_Witness ==
    /\ SpGameEnded
    /\ sp.m = 1
    /\ sp.end_value = DRAW
    /\ sp.value > 0 /\ sp.value < ONE
    /\ Len(sp.data) >= 6 * NumSym

\* C18: with a game adapter whose games all reach a terminal ply, self_play
\* returns, having played exactly `games` games, each started on a fresh game
\* state and ended at its first ply with a truthy is_over value; with an
\* adapter that never reports a terminal value, self_play never returns.
C18_Termination ==
    /\ (~sp_obs.endless) ~> (sp.pc = "return")
    /\ [](sp.pc = "return" => (sp.n = sp.games /\ Len(sp_obs.log) = sp.games))
    /\ []((sp.pc = "premove" /\ sp.m = 0) => sp.game = Game)
    /\ [][sp.pc = "execute" =>
             IF sp'.end_value # 0
                THEN sp'.pc = "for_n" /\ sp'.n = sp.n + 1
                ELSE sp'.pc = "premove" /\ sp'.n = sp.n /\ sp'.m = sp.m + 1]_vars
    /\ []((sp_obs.endless /\ sp.games >= 1) => sp.pc # "return")

\* self_play has returned from MaxGames games, one of them of two plies
C18_Witness ==
    /\ sp.pc = "return"
    /\ ~sp_obs.endless
    /\ sp.games = MaxGames
    /\ sp.n = MaxGames
    /\ \E k \in 1..Len(sp_obs.log) : sp_obs.log[k].plies = 2

\* the order in which main() moves from one phase to the next
PhaseOrder ==
    {<<"save", "promote">>, <<"promote", "self_play">>, <<"self_play", "train">>,
     <<"train", "evaluate">>, <<"evaluate", "save">>}

\* C11: within an iteration the phases run one at a time in the order persist,
\* promote, self-play, train, evaluate; the model parameters are changed only
\* by the gradient pass of the training phase, and are left unchanged by
\* self-play, evaluation, the saving of checkpoints and the loss-reporting pass.
C11_PhasesAndOwnership ==
    [][/\ main'.pc # main.pc => <<main.pc, main'.pc>> \in PhaseOrder
       /\ main'.model # main.model =>
             (main.pc = "train" /\ main.pass = "fit" /\ main'.pc = "train")
       /\ (main.pc \in {"save", "promote", "self_play", "evaluate"} \/ main.pass = "report")
             => main'.model = main.model
       /\ main'.files # main.files => main.pc = "save"
       /\ main'.best # main.best => main.pc = "promote"
       /\ main'.new_data # main.new_data => main.pc = "self_play"
       /\ main'.score # main.score => main.pc = "evaluate"]_vars

\* the second iteration has been trained: every phase has run, the
\* loss-reporting pass 2 * TrainEpochs times, and there were as many gradient
\* passes as there are versions of the parameters
C11_Witness ==
    /\ main.pc = "evaluate"
    /\ main.iteration = 1
    /\ main.model = 2 * TrainEpochs
    /\ Len(main.files) = 2
    /\ main.best.written

\* C19: best.params is written only at a promotion; whenever it exists it
\* holds the parameters that were evaluated to produce the current best
\* record (nothing changes the parameters between the evaluation that ends
\* iteration i-1 and the promotion of iteration i); the best record strictly
\* increases at each promotion and never changes otherwise.
C19_BestConsistency ==
    /\ [](main.best.written <=> main_obs.promotions >= 1)
    /\ [](main.best.written => main.best.params = main_obs.best_from)
    /\ []((main.iteration >= 1 /\ main.pc \in {"save", "promote"})
             => main.model = main_obs.evaluated)
    /\ [][(main'.best # main.best \/ main'.best_score # main.best_score)
             => (main.pc = "promote" /\ MainPromoted)]_vars
    /\ [][MainPromoted =>
             /\ main'.best.written
             /\ main'.best_score = main.score
             /\ BeatsLexicographic(main'.best_score, main.best_score)]_vars

\* the second training phase is under way: the parameters have moved on, the
\* best checkpoint still holds the ones the first evaluation played with
C19_Witness ==
    /\ main.pc = "train"
    /\ main.iteration = 1
    /\ main.best.written
    /\ main.best.params = TrainEpochs
    /\ main.model > main.best.params
    /\ main.best_score = main.score

\* C20: the best record starts at (0, 0, 0) and every score is a triple of
\* non-negative counts summing to the number of games played, so the score of
\* iteration 0 always compares greater: best.params is always written at the
\* start of iteration 1, whatever the result, and not before.
C20_FirstPromotion ==
    /\ (main.iteration = 0 \/ (main.iteration = 1 /\ main.pc \in {"save", "promote"}))
          => (~main.best.written /\ main.best_score = <<0, 0, 0>>)
    /\ (main.iteration = 1 /\ main.pc = "self_play") =>
          /\ main.best.written
          /\ main_obs.promotions = 1
          /\ main.best_score = main.score
          /\ \A i \in 1..3 : main.score[i] >= 0
          /\ main.score[1] + main.score[2] + main.score[3] = EvalGames

\* promoted on no win at all: every game of iteration 0 was lost
C20_Witness ==
    /\ main.iteration = 1
    /\ main.pc = "self_play"
    /\ main.score = <<0, 0, EvalGames>>
    /\ main.best = [written |-> TRUE, params |-> TrainEpochs]

(***************************************************************************)
(* Properties of the start of main (checked under SpecStartup)             *)
(***************************************************************************)
\* C13: whenever an integer --seed is supplied, 0 included, the generators
\* are seeded with it exactly once, at startup, before the model is built and
\* before any phase runs.
C13_SeedAlwaysApplied ==
    /\ main.pc = "start" => main_obs.seedings = 0
    /\ (main.seed.given /\ main.pc # "start") =>
          /\ main.rng = [seeded |-> TRUE, value |-> main.seed.value]
          /\ main_obs.seedings = 1

(***************************************************************************)
(* Properties of the exploration schedule (checked under SpecSchedule)     *)
(***************************************************************************)
\* the _epsilon of the current sample has been computed
SchedSampled == sched.pc = "self_play"

\* 0.2*epsilon as line 119 computes it
SchedFloor == FMul(F02, sched.epsilon)

Five == <<5>>
Ten == <<10>>

C15_AppendEvict ==
    LET K == main.data_limit
        M == main_obs.gen
    IN  /\ Len(main.data) <= K
        /\ M > K =>
              /\ Len(main.data) = K
              /\ main.data = SubSeq(Generated, M - K + 1, M)
        /\ M <= K => main.data = Generated

\* a buffer of capacity 2 after five examples, the last batch of two having
\* evicted two
C15_Witness ==
    /\ main.pc = "append"
    /\ main.data_limit = 2
    /\ main_obs.gen = 5
    /\ Len(main.new_data) = 2
    /\ main.data = <<4, 5>>

(***************************************************************************)
(* Properties of train (checked under SpecTrain)                           *)
(***************************************************************************)
RECURSIVE Flatten(_)
Flatten(chunks) == IF chunks = <<>> THEN <<>> ELSE chunks[1] \o Flatten(Tail(chunks))

\* the loss-reporting pass of the current epoch has drawn its last batch
TrEpochOver == tr.pc = "report" /\ tr.i >= Len(tr.data)

\* the gradient pass of the epoch cut the shuffled buffer into contiguous
\* chunks of batch_size, the last possibly shorter, and made one update per
\* chunk: every example went into exactly one update
TrFitPartition ==
    /\ Flatten(tr_obs.fit) = tr.data
    /\ \A k \in 1..Len(tr_obs.fit) :
          /\ Len(tr_obs.fit[k]) >= 1
          /\ Len(tr_obs.fit[k]) <= tr.batch_size
          /\ k < Len(tr_obs.fit) => Len(tr_obs.fit[k]) = tr.batch_size
    /\ tr.model = tr_obs.model0 + Len(tr_obs.fit)
    /\ \A x \in 1..Len(tr.data) :
          Cardinality({j \in 1..Len(tr.data) : Flatten(tr_obs.fit)[j] = x}) = 1

\* the loss-reporting pass cut the buffer the same way
TrReportPartition ==
    /\ Flatten(tr_obs.report) = tr.data
    /\ Len(tr_obs.report) = Len(tr_obs.fit)
    /\ \A k \in 1..Len(tr_obs.report) : Len(tr_obs.report[k]) = Len(tr_obs.fit[k])

\* C16 as stated: per epoch one shuffle, contiguous chunks, one gradient
\* update per chunk, every example in exactly one update; then the
\* loss-reporting pass over a second, fresh shuffle of the buffer, chunked the
\* same way, with no parameter update.
C16_FreshShuffleReport ==
    TrEpochOver =>
       /\ TrFitPartition
       /\ TrReportPartition
       /\ tr_obs.shuffles = 2

\* C16 (amended): per epoch one shuffle, contiguous chunks, one gradient update
\* per chunk, every example in exactly one update; then the loss-reporting
\* pass over the same shuffled order (the buffer is shuffled once per epoch,
\* not again), hence over the very same chunks, with no parameter update.
C16_SameOrderReport ==
    /\ TrEpochOver =>
          /\ TrFitPartition
          /\ TrReportPartition
          /\ tr_obs.shuffles = 1
          /\ tr_obs.report = tr_obs.fit
    /\ tr.pc = "report" => tr.model = tr_obs.model0 + Len(tr_obs.fit)

\* the end of the second epoch over three examples in batches of two, in an
\* order that is not the one the buffer came in
C16_Witness ==
    /\ TrEpochOver
    /\ tr.epoch = 1
    /\ tr.batch_size = 2
    /\ tr.data = <<3, 1, 2>>
    /\ tr_obs.report = <<(<<3, 1>>), (<<2>>)>>
    /\ tr.model = 4

\* C17: train with an empty data sequence and epochs >= 1 does not return
\* normally, and the failure is a dedicated 'empty dataset' error, not a
\* generic numeric fault.
C17_EmptyDatasetError ==
    (tr.data = <<>> /\ tr.epochs >= 1) =>
       /\ tr.pc # "return"
       /\ tr.pc = "error" => tr.error = "EmptyDatasetError"

====
